---- MODULE Spec2Model ----
(***************************************************************************)
(* Model of build-shaper-font (src/src/lib.rs): the wasm entry point       *)
(* build_shaper_font, the variation-info adapter SimpleVariationInfo with  *)
(* its model cache, and the diagnostic span translation to_utf16_offset.   *)
(*                                                                         *)
(* Three specifications share the module:                                  *)
(*   Spec      one invocation of build_shaper_font, phase by phase         *)
(*   SpecR     a sequence of resolve_variable_metric calls on one resolver *)
(*   SpecU     to_utf16_offset applied to a source string and an offset    *)
(***************************************************************************)
EXTENDS Integers, Sequences, FiniteSets, TLC

VARIABLES
    \* ---- build_shaper_font (Spec)
    pc,            \* position in build_shaper_font
    axesArg,       \* the `axes` argument: Nothing or Some(sequence of axis tags)
    outcome,       \* "running" | "result" (Ok(res)) | "jserror" (Err) | "panic"
    res,           \* the CompilationResult being filled
    ranPhases,     \* the phases that have run, in order
    produced,      \* the diagnostics the executed phases produced, in order
    compName,      \* compilation.name as ctx.build() returned it (Option)
    units_per_em,  \* the `unitsPerEm` argument
    ctxFailed,     \* the compiler recorded an error for a failed callback
    \* ---- SimpleVariationInfo (Spec and SpecR)
    axes,          \* variation_info: Nothing, or Some(its Axes)
    model_cache,   \* SimpleVariationInfo.model_cache
    requested,     \* history: the location sets requested so far
    calls,         \* history: number of resolver calls made
    lastValues,    \* history: the argument of the last resolve call
    lastResult,    \* the value the last resolve call returned
    \* ---- to_utf16_offset (SpecU)
    uS,            \* the source string, a sequence of Unicode scalar values
    uB,            \* the byte offset
    uOut           \* the returned offset: Nothing before the call, then Some(n)

vars == <<pc, axesArg, outcome, res, ranPhases, produced, compName, units_per_em, ctxFailed,
          axes, model_cache, requested, calls, lastValues, lastResult,
          uS, uB, uOut>>

buildVars == <<pc, axesArg, outcome, res, ranPhases, produced, compName, units_per_em, ctxFailed>>
resolverVars == <<axes, model_cache, requested, calls, lastValues, lastResult>>
utfVars == <<uS, uB, uOut>>

\* Option<T>: Nothing, or Some(x).
Nothing == <<>>
Some(x) == <<x>>
IsSome(o) == o # <<>>
Unwrap(o) == o[1]

(***************************************************************************)
(* Bounds of the model.                                                    *)
(***************************************************************************)
MaxLen == 2        \* scalar values in a source string
MaxCalls == 2      \* resolve_variable_metric calls on one resolver
MaxDiags == 2      \* diagnostics one compilation produces

(***************************************************************************)
(* Sequence helpers.                                                       *)
(***************************************************************************)
RECURSIVE SeqSum(_)
SeqSum(s) == IF s = <<>> THEN 0 ELSE Head(s) + SeqSum(Tail(s))

RECURSIVE Flatten(_)
Flatten(ss) == IF ss = <<>> THEN <<>> ELSE Head(ss) \o Flatten(Tail(ss))

Prefix(s, k) == SubSeq(s, 1, k)

SeqsUpTo(S, n) == UNION {[1..k -> S] : k \in 0..n}

(***************************************************************************)
(* to_utf16_offset (lib.rs 251-255) over the UTF-8 bytes of a str.         *)
(***************************************************************************)
\* The bytes Rust stores for one scalar value (a str is UTF-8).
Utf8Encode(c) ==
    IF c < 128 THEN <<c>>
    ELSE IF c < 2048 THEN <<192 + (c \div 64), 128 + (c % 64)>>
    ELSE IF c < 65536 THEN
        <<224 + (c \div 4096), 128 + ((c \div 64) % 64), 128 + (c % 64)>>
    ELSE <<240 + (c \div 262144), 128 + ((c \div 4096) % 64),
           128 + ((c \div 64) % 64), 128 + (c % 64)>>

StrBytes(s) == Flatten([i \in 1..Len(s) |-> Utf8Encode(s[i])])

\* str::is_char_boundary: 0 and len are boundaries, beyond len is not, else
\* the byte at the index is not a continuation byte (0x80..0xBF).
IsCharBoundary(bytes, index) ==
    IF index = 0 THEN TRUE
    ELSE IF index >= Len(bytes) THEN index = Len(bytes)
    ELSE ~(bytes[index + 1] >= 128 /\ bytes[index + 1] < 192)

\* str::get(..byte_offset): Some(prefix bytes), or Nothing.
StrGetTo(bytes, byte_offset) ==
    IF IsCharBoundary(bytes, byte_offset) THEN Some(Prefix(bytes, byte_offset)) ELSE Nothing

\* str::chars over (valid) UTF-8 bytes.
RECURSIVE Chars(_)
Chars(bytes) ==
    IF bytes = <<>> THEN <<>>
    ELSE LET b0 == bytes[1] IN
         IF b0 < 128 THEN <<b0>> \o Chars(SubSeq(bytes, 2, Len(bytes)))
         ELSE IF b0 < 224 THEN
             <<(b0 - 192) * 64 + (bytes[2] - 128)>> \o Chars(SubSeq(bytes, 3, Len(bytes)))
         ELSE IF b0 < 240 THEN
             <<(b0 - 224) * 4096 + (bytes[2] - 128) * 64 + (bytes[3] - 128)>>
                 \o Chars(SubSeq(bytes, 4, Len(bytes)))
         ELSE
             <<(b0 - 240) * 262144 + (bytes[2] - 128) * 4096
                 + (bytes[3] - 128) * 64 + (bytes[4] - 128)>>
                 \o Chars(SubSeq(bytes, 5, Len(bytes)))

\* char::len_utf16
LenUtf16(c) == IF c < 65536 THEN 1 ELSE 2

\* A plausible slip: counting scalar values instead of UTF-16 code units.
to_utf16_offset_chars(s, byte_offset) ==
    LET p == StrGetTo(StrBytes(s), byte_offset) IN
    IF ~IsSome(p) THEN byte_offset ELSE Len(Chars(Unwrap(p)))

to_utf16_offset(s, byte_offset) ==
    LET p == StrGetTo(StrBytes(s), byte_offset) IN
    IF ~IsSome(p) THEN byte_offset
    ELSE LET cs == Chars(Unwrap(p)) IN SeqSum([i \in 1..Len(cs) |-> LenUtf16(cs[i])])

(***************************************************************************)
(* f64 arithmetic on the values the model draws (small integers and dyadic *)
(* coordinates, which f64 represents exactly): a number is <<n, d>>, d > 0,*)
(* in lowest terms.                                                        *)
(***************************************************************************)
Abs(x) == IF x < 0 THEN -x ELSE x

RECURSIVE GCD(_, _)
GCD(a, b) == IF b = 0 THEN a ELSE GCD(b, a % b)

RNorm(n, d) ==
    LET g == GCD(Abs(n), Abs(d))
        s == IF d < 0 THEN -1 ELSE 1
    IN <<(s * n) \div g, (s * d) \div g>>

RInt(n) == <<n, 1>>
RZero == RInt(0)
ROne == RInt(1)
RHalf == <<1, 2>>
RAdd(a, b) == RNorm(a[1] * b[2] + b[1] * a[2], a[2] * b[2])
RSub(a, b) == RNorm(a[1] * b[2] - b[1] * a[2], a[2] * b[2])
RMul(a, b) == RNorm(a[1] * b[1], a[2] * b[2])
RDiv(a, b) == RNorm(a[1] * b[2], a[2] * b[1])
RLt(a, b) == a[1] * b[2] < b[1] * a[2]
RLe(a, b) == a[1] * b[2] <= b[1] * a[2]
RAbs(a) == <<Abs(a[1]), a[2]>>
RSign(a) == IF a[1] < 0 THEN -1 ELSE IF a[1] > 0 THEN 1 ELSE 0
RMin(a, b) == IF RLt(b, a) THEN b ELSE a
RMax(a, b) == IF RLt(a, b) THEN b ELSE a
RFloor(a) == a[1] \div a[2]

RECURSIVE RSum(_)
RSum(s) == IF s = <<>> THEN RZero ELSE RAdd(Head(s), RSum(Tail(s)))

I16Min == -32768
I16Max == 32767

\* `as i16` on a float: saturating.
AsI16(n) == IF n < I16Min THEN I16Min ELSE IF n > I16Max THEN I16Max ELSE n

\* Round half away from zero (what the rounding is not).
ot_round_half_away(x) ==
    AsI16(IF RLt(x, RZero) THEN -RFloor(RAdd(RAbs(x), RHalf)) ELSE RFloor(RAdd(x, RHalf)))

\* OtRound<i16> for f64 (write_fonts), used at lib.rs 183 and 190:
\* (self + 0.5).floor() as i16.
ot_round(x) == AsI16(RFloor(RAdd(x, RHalf)))

(***************************************************************************)
(* fontdrasil's VariationModel as lib.rs uses it (new at 161, deltas at    *)
(* 166, default at 179, scalar_at at 179, is_default at 187).  A location  *)
(* is a function from the axis tags to normalized coordinates; a region is *)
(* a function from the axis tags to tents <<min, peak, max>>.              *)
(***************************************************************************)
Range(s) == {s[i] : i \in DOMAIN s}

\* The function f, its values computed once and kept.
Eager(f) == f @@ <<>>

IndexOf(s, x) == CHOOSE i \in DOMAIN s : s[i] = x

\* The axes of a location with a non-zero coordinate, in axis order.
ActiveAxes(loc, axis_order) ==
    LET F[i \in 0..Len(axis_order)] ==
            IF i = 0 THEN <<>>
            ELSE IF axis_order[i] \in DOMAIN loc /\ loc[axis_order[i]] # RZero
                 THEN Append(F[i - 1], axis_order[i])
                 ELSE F[i - 1]
    IN F[Len(axis_order)]

\* The coordinates that single-axis locations put on an axis (and zero).
AxisPoints(locs, axis_order, tag) ==
    {RZero} \cup {l[tag] : l \in {m \in locs : ActiveAxes(m, axis_order) = <<tag>>}}

\* Lexicographic a < b for two sequences of the same length of numbers.
RECURSIVE LexLess(_, _)
LexLess(a, b) ==
    IF a = <<>> \/ b = <<>> THEN FALSE
    ELSE IF RLt(Head(a), Head(b)) THEN TRUE
    ELSE IF RLt(Head(b), Head(a)) THEN FALSE
    ELSE LexLess(Tail(a), Tail(b))

\* LocationSortingHat::key_for: rank, fewer on-point axes last, axis order,
\* signs, absolute values.
SortKey(loc, locs, axis_order) ==
    LET act == ActiveAxes(loc, axis_order)
        onPoint == {i \in DOMAIN act : loc[act[i]] \in AxisPoints(locs, axis_order, act[i])}
    IN <<Len(act),
         -Cardinality(onPoint),
         [i \in DOMAIN act |-> RInt(IndexOf(axis_order, act[i]))],
         [i \in DOMAIN act |-> RInt(RSign(loc[act[i]]))],
         [i \in DOMAIN act |-> RAbs(loc[act[i]])]>>

KeyLess(ka, kb) ==
    IF ka[1] # kb[1] THEN ka[1] < kb[1]
    ELSE IF ka[2] # kb[2] THEN ka[2] < kb[2]
    ELSE IF ka[3] # kb[3] THEN LexLess(ka[3], kb[3])
    ELSE IF ka[4] # kb[4] THEN LexLess(ka[4], kb[4])
    ELSE LexLess(ka[5], kb[5])

\* locations.sort_by_cached_key(sorting_hat.key_for)
SortLocations(locs, axis_order) ==
    LET key == Eager([l \in locs |-> SortKey(l, locs, axis_order)])
        RECURSIVE Pick(_)
        Pick(todo) ==
            IF todo = {} THEN <<>>
            ELSE LET m == CHOOSE l \in todo :
                            \A o \in todo \ {l} : KeyLess(key[l], key[o])
                 IN <<m>> \o Pick(todo \ {m})
    IN Pick(locs)

\* regions_for: each location's tent runs from zero through its peak to the
\* extreme any location reaches on that axis.
RegionsFor(sorted, axis_order) ==
    LET locs == Range(sorted)
        tags == Range(axis_order)
        RECURSIVE MinOf(_, _)
        MinOf(S, tag) == IF S = {} THEN RZero
                         ELSE LET l == CHOOSE x \in S : TRUE
                              IN RMin(l[tag], MinOf(S \ {l}, tag))
        RECURSIVE MaxOf(_, _)
        MaxOf(S, tag) == IF S = {} THEN RZero
                         ELSE LET l == CHOOSE x \in S : TRUE
                              IN RMax(l[tag], MaxOf(S \ {l}, tag))
        lo == Eager([tag \in tags |-> MinOf(locs, tag)])
        hi == Eager([tag \in tags |-> MaxOf(locs, tag)])
    IN Eager([i \in DOMAIN sorted |->
          Eager([tag \in tags |->
              LET v == sorted[i][tag] IN
              IF v = RZero THEN <<RZero, RZero, RZero>>
              ELSE IF RLt(RZero, v) THEN <<RZero, v, hi[tag]>>
              ELSE <<lo[tag], v, RZero>>])])

RegionActive(region) == {tag \in DOMAIN region : region[tag][2] # RZero}

\* VariationRegion::is_default: no axis has a non-zero peak.
IsDefault(region) == RegionActive(region) = {}

\* One step of master_influence: split `region`'s box for an earlier master.
SplitBox(region, prev) ==
    LET relevant ==
            \A tag \in RegionActive(region) :
                \/ prev[tag][2] = region[tag][2]
                \/ RLt(region[tag][1], prev[tag][2]) /\ RLt(prev[tag][2], region[tag][3])
        cand == {tag \in RegionActive(prev) : prev[tag][2] # region[tag][2]}
        ratio(tag) ==
            LET p == prev[tag][2]
                t == region[tag]
            IN IF RLt(p, t[2]) THEN RDiv(RSub(p, t[2]), RSub(t[1], t[2]))
               ELSE RDiv(RSub(p, t[2]), RSub(t[3], t[2]))
        newTent(tag) ==
            LET p == prev[tag][2]
                t == region[tag]
            IN IF RLt(p, t[2]) THEN <<p, t[2], t[3]>> ELSE <<t[1], t[2], p>>
        best == {tag \in cand : RLt(RInt(-1), ratio(tag))
                                 /\ \A o \in cand : RLe(ratio(o), ratio(tag))}
    IN IF RegionActive(prev) # RegionActive(region) \/ ~relevant THEN region
       ELSE Eager([tag \in DOMAIN region |-> IF tag \in best THEN newTent(tag) ELSE region[tag]])

\* master_influence: region i, split for every earlier master in turn.
MasterInfluence(regions) ==
    LET RECURSIVE Walk(_, _, _)
        Walk(region, i, j) ==
            IF j >= i THEN region ELSE Walk(SplitBox(region, regions[j]), i, j + 1)
    IN Eager([i \in DOMAIN regions |-> Walk(regions[i], i, 1)])

\* Tent scalar of a region at a location (VariationRegion::scalar_at).
TentScalar(tent, v) ==
    IF tent[2] = RZero THEN ROne
    ELSE IF RLt(tent[2], tent[1]) \/ RLt(tent[3], tent[2]) THEN ROne
    ELSE IF RLt(tent[1], RZero) /\ RLt(RZero, tent[3]) THEN ROne
    ELSE IF v = tent[2] THEN ROne
    ELSE IF RLe(v, tent[1]) \/ RLe(tent[3], v) THEN RZero
    ELSE IF RLt(v, tent[2]) THEN RDiv(RSub(v, tent[1]), RSub(tent[2], tent[1]))
    ELSE RDiv(RSub(tent[3], v), RSub(tent[3], tent[2]))

ScalarAt(region, loc, axis_order) ==
    LET F[i \in 0..Len(axis_order)] ==
            IF i = 0 THEN ROne
            ELSE RMul(F[i - 1], TentScalar(region[axis_order[i]], loc[axis_order[i]]))
    IN F[Len(axis_order)]

\* delta_weights: for master i, the earlier masters whose region reaches it.
DeltaWeights(sorted, influence, axis_order) ==
    Eager([i \in DOMAIN sorted |->
        {<<j, ScalarAt(influence[j], sorted[i], axis_order)>> :
            j \in {k \in 1..(i - 1) : ScalarAt(influence[k], sorted[i], axis_order) # RZero}}])

\* VariationModel::new(locations, axis_order)
VariationModelNew(locations, axis_order) ==
    LET sorted == SortLocations(locations, axis_order)
        influence == MasterInfluence(RegionsFor(sorted, axis_order))
    IN [default |-> [tag \in Range(axis_order) |-> RZero],
        axis_order |-> axis_order,
        locations |-> sorted,
        influence |-> influence,
        delta_weights |-> DeltaWeights(sorted, influence, axis_order)]

\* Result<T, E>: Err, or Ok(v).
Err == [ok |-> FALSE]
Ok(v) == [ok |-> TRUE, v |-> v]

\* VariationModel::deltas(point_seqs): Err when a location is unknown to the
\* model or the default has no point sequence, else one (region, deltas)
\* per master of the model that has points, in model order.
ModelDeltas(model, point_seqs) ==
    LET n == Len(model.locations)
        has(i) == model.locations[i] \in DOMAIN point_seqs
        \* F[i]: the deltas of masters 1..i (Nothing where a master has no points)
        F[i \in 0..n] ==
            IF i = 0 THEN <<>>
            ELSE LET prev == F[i - 1]
                     ws == model.delta_weights[i]
                     used == {w \in ws : IsSome(prev[w[1]])}
                     RECURSIVE Sub(_, _)
                     Sub(acc, S) ==
                        IF S = {} THEN acc
                        ELSE LET w == CHOOSE x \in S : TRUE
                             IN Sub(RSub(acc, RMul(Unwrap(prev[w[1]])[1], w[2])), S \ {w})
                 IN Append(prev,
                           IF has(i)
                           THEN Some(<<Sub(point_seqs[model.locations[i]][1], used)>>)
                           ELSE Nothing)
        all == F[n]
        G[i \in 0..n] ==
            IF i = 0 THEN <<>>
            ELSE IF ~IsSome(all[i]) THEN G[i - 1]
            ELSE Append(G[i - 1], <<model.influence[i], Unwrap(all[i])>>)
    IN IF DOMAIN point_seqs = {} THEN Ok(<<>>)
       ELSE IF \E loc \in DOMAIN point_seqs : loc \notin Range(model.locations) THEN Err
       ELSE IF model.default \notin DOMAIN point_seqs THEN Err
       ELSE Ok(G[n])

(***************************************************************************)
(* SimpleVariationInfo::resolve_variable_metric (lib.rs 146-195).          *)
(***************************************************************************)
EmptyCache == [k \in {} |-> Nothing]

\* A cache that keeps only its latest model.
ModelCacheEntryEvicting(cache, locations, axis_order) ==
    [k \in {locations} |-> VariationModelNew(locations, axis_order)]

\* model_cache.entry(locations).or_insert_with(|| VariationModel::new(..))
\* (lib.rs 159-162): the cache after the call.
ModelCacheEntry(cache, locations, axis_order) ==
    IF locations \in DOMAIN cache THEN cache
    ELSE [k \in DOMAIN cache \cup {locations} |->
            IF k = locations THEN VariationModelNew(locations, axis_order) ELSE cache[k]]

\* A cache that compares keys by their size only: another key of the same
\* size answers for the one asked for.
CachedModelBySize(cache, locations) ==
    LET same == {k \in DOMAIN cache : Cardinality(k) = Cardinality(locations)}
    IN IF same = {locations} THEN cache[locations]
       ELSE cache[CHOOSE k \in same : k # locations]

\* The model the entry call hands back (lib.rs 160): the one stored under
\* the BTreeSet key.
CachedModel(cache, locations) == cache[locations]

\* No filter: the default region is emitted like any other.
KeepDeltaAlways(region) == TRUE

\* The filter of lib.rs 187: |(r, _)| !r.is_default()
KeepDelta(region) == ~IsDefault(region)

\* region.to_write_fonts_variation_region(&self.axes) (lib.rs 189): the
\* region's tents as a list in axis order.
ToWriteFontsRegion(region, axis_order) ==
    [i \in DOMAIN axis_order |-> region[axis_order[i]]]

\* lib.rs 176-183: the default on the unrounded deltas.
UnroundedDefault(deltas, model) ==
    RSum([i \in DOMAIN deltas |->
            LET scaler == ScalarAt(deltas[i][1], model.default, model.axis_order)
            IN IF scaler # RZero THEN RMul(deltas[i][2], scaler) ELSE RZero])

\* lib.rs 186-192: the non-default regions with their rounded deltas.
FearsDeltas(deltas, axis_order) ==
    LET F[i \in 0..Len(deltas)] ==
            IF i = 0 THEN <<>>
            ELSE IF KeepDelta(deltas[i][1])
                 THEN Append(F[i - 1],
                             <<ToWriteFontsRegion(deltas[i][1], axis_order),
                               ot_round(deltas[i][2])>>)
                 ELSE F[i - 1]
    IN F[Len(deltas)]

\* The body of resolve_variable_metric given the model in use:
\* Err(VariationError), or Ok((default_value, deltas)).
ResolveWith(var_model, values, axis_order) ==
    LET point_seqs == [loc \in DOMAIN values |-> <<RInt(values[loc])>>]
        raw == ModelDeltas(var_model, point_seqs)
    IN IF ~raw.ok THEN Err
       ELSE LET deltas == Eager([i \in DOMAIN raw.v |-> <<raw.v[i][1], raw.v[i][2][1]>>])
            IN Ok([default_value |-> ot_round(UnroundedDefault(deltas, var_model)),
                   deltas |-> FearsDeltas(deltas, axis_order)])

\* resolve_variable_metric: the cache after the call and the value returned.
resolve_variable_metric(axis_order, cache, values) ==
    LET locations == DOMAIN values
        cache1 == ModelCacheEntry(cache, locations, axis_order)
    IN [cache |-> cache1,
        result |-> ResolveWith(CachedModel(cache1, locations), values, axis_order)]

(***************************************************************************)
(* The inputs of the resolver.                                             *)
(***************************************************************************)
\* Normalized coordinates on an axis (dyadic, exact in f64).
Coords == {RZero, <<1, 2>>, <<3, 4>>, ROne}

\* Per-master metric values (i16).
Values == {-2, 3}

\* Every mapping from some locations of a set to Values.
MappingsOver(locs) == UNION {[keys -> Values] : keys \in SUBSET locs}

(***************************************************************************)
(* AxisInfo, Tag and SimpleVariationInfo::new (lib.rs 49-58, 84-113).      *)
(* A string is the sequence of its bytes.                                  *)
(***************************************************************************)
Wght == <<119, 103, 104, 116>>               \* "wght"
Wdth == <<119, 100, 116, 104>>               \* "wdth"
Weight == <<119, 101, 105, 103, 104, 116>>   \* "weight": no tag, too long

AxisInfo(axis_tag, min_value, default_value, max_value) ==
    [axis_tag |-> axis_tag, min_value |-> min_value,
     default_value |-> default_value, max_value |-> max_value]

\* Tag::from_str: one to four printable ASCII bytes, padded with spaces.
TagFromStr(s) ==
    IF Len(s) \in 1..4 /\ \A i \in DOMAIN s : s[i] \in 32..126
    THEN Ok([i \in 1..4 |-> IF i <= Len(s) THEN s[i] ELSE 32])
    ELSE Err

\* The closure of lib.rs 88-105 on a well-formed tag.
AxisOf(a) ==
    [name |-> a.axis_tag, tag |-> TagFromStr(a.axis_tag).v,
     min |-> a.min_value, default |-> a.default_value, max |-> a.max_value]

\* SimpleVariationInfo::new: Err stands for the panic of the unwrap at
\* lib.rs 89; Ok carries the Axes (the cache starts empty).
SimpleVariationInfoNew(axis_infos) ==
    IF \E i \in DOMAIN axis_infos : ~TagFromStr(axis_infos[i].axis_tag).ok THEN Err
    ELSE Ok([i \in DOMAIN axis_infos |-> AxisOf(axis_infos[i])])

\* Axes::axis_order
AxisOrder(axs) == [i \in DOMAIN axs |-> axs[i].tag]

WghtInfo == AxisInfo(Wght, 100, 400, 900)
WdthInfo == AxisInfo(Wdth, 50, 100, 200)

\* SpecR: one axis; the sample mappings over its locations at Coords that
\* define the default location, and those of at most one location.
ResolverAxes == SimpleVariationInfoNew(<<WghtInfo>>).v

SampleMappings ==
    {m \in MappingsOver({[tag \in {Wght} |-> c] : c \in Coords}) :
        \/ [tag \in {Wght} |-> RZero] \in DOMAIN m
        \/ Cardinality(DOMAIN m) <= 1}

\* One call of the compiler into the resolver.
ResolveStep(values) ==
    LET r == resolve_variable_metric(AxisOrder(Unwrap(axes)), model_cache, values)
    IN /\ model_cache' = r.cache
       /\ lastResult' = r.result
       /\ lastValues' = values
       /\ requested' = requested \cup {DOMAIN values}
       /\ calls' = calls + 1

ResolveMetric ==
    /\ calls < MaxCalls
    /\ \E values \in SampleMappings : ResolveStep(values)
    /\ UNCHANGED <<buildVars, axes, utfVars>>

\* CompilationResult::default()
CompilationResultDefault ==
    [font_data |-> Nothing, insert_markers |-> Nothing, messages |-> <<>>]

IdleBuild ==
    /\ pc = "idle" /\ axesArg = Nothing /\ outcome = "idle"
    /\ res = CompilationResultDefault /\ ranPhases = <<>> /\ produced = <<>>
    /\ compName = Nothing /\ units_per_em = 0 /\ ctxFailed = FALSE

IdleUtf == uS = <<>> /\ uB = 0 /\ uOut = Nothing

InitR ==
    /\ IdleBuild /\ IdleUtf
    /\ axes = Some(ResolverAxes)
    /\ model_cache = EmptyCache
    /\ requested = {}
    /\ calls = 0
    /\ lastValues = <<>>
    /\ lastResult = Err

NextR == ResolveMetric

SpecR == InitR /\ [][NextR]_vars

(***************************************************************************)
(* Diagnostics and CompilationResult::add_diagnostics (lib.rs 231-248).    *)
(***************************************************************************)
\* The Debug names of fea_rs's Level, as bytes.
LevelError == <<69, 114, 114, 111, 114>>                 \* "Error"
LevelWarning == <<87, 97, 114, 110, 105, 110, 103>>      \* "Warning"
LevelInfo == <<73, 110, 102, 111>>                       \* "Info"

\* str::to_lowercase on ASCII text.
ToLowercase(s) == [i \in DOMAIN s |-> IF s[i] \in 65..90 THEN s[i] + 32 ELSE s[i]]

\* format!("{:?}", diagnostic.level).to_lowercase() (lib.rs 240)
LevelLabel(level) == ToLowercase(level)

\* The feature source of the invocation: "A", U+1F600, e-acute (7 bytes).
FeatureSource == <<65, 128512, 233>>

\* The diagnostics the compiler may report: an error and a warning in the
\* feature source, and a note whose file the tree cannot resolve.
DiagE == [level |-> LevelError, text |-> "e", file_known |-> TRUE, span |-> [start |-> 1, end |-> 5]]
DiagW == [level |-> LevelWarning, text |-> "w", file_known |-> TRUE, span |-> [start |-> 5, end |-> 7]]
DiagI == [level |-> LevelInfo, text |-> "i", file_known |-> FALSE, span |-> [start |-> 2, end |-> 3]]
Diags == {DiagE, DiagW, DiagI}

\* tree.get_source(file).map(|s| s.text()).unwrap_or("") (lib.rs 233-236)
SourceText(diagnostic) == IF diagnostic.file_known THEN FeatureSource ELSE <<>>

\* The Message pushed for one diagnostic (lib.rs 239-246).
MessageOf(diagnostic) ==
    [level |-> LevelLabel(diagnostic.level),
     text |-> diagnostic.text,
     span |-> [start |-> to_utf16_offset(SourceText(diagnostic), diagnostic.span.start),
               end |-> to_utf16_offset(SourceText(diagnostic), diagnostic.span.end)]]

\* A batch that keeps only its errors.
add_diagnostics_errors_only(result, diagnostics) ==
    [result EXCEPT !.messages =
        @ \o SelectSeq([i \in DOMAIN diagnostics |-> MessageOf(diagnostics[i])],
                       LAMBDA m : m.level = LevelLabel(LevelError))]

\* CompilationResult::add_diagnostics: one message per diagnostic, in order.
add_diagnostics(result, diagnostics) ==
    LET F[i \in 0..Len(diagnostics)] ==
            IF i = 0 THEN result.messages
            ELSE Append(F[i - 1], MessageOf(diagnostics[i]))
    IN [result EXCEPT !.messages = F[Len(diagnostics)]]

\* Whether a batch holds an error-level diagnostic (ctx.build() returns Err
\* exactly with such a batch).
ContainsError(batch) == \E i \in DOMAIN batch : batch[i].level = LevelError

\* A check that never halts.
has_errors_never(diagnostics) == FALSE

\* diagnostics.has_errors() (lib.rs 300, 308)
has_errors(diagnostics) == \E i \in DOMAIN diagnostics : diagnostics[i].level = LevelError

(***************************************************************************)
(* Axis-table assembly (lib.rs 340-375).                                   *)
(***************************************************************************)
LAST_RESERVED_NAME_ID == 255
U16Max == 65535

\* NameId::checked_add
CheckedAdd(name_id, n) == IF name_id + n > U16Max THEN Nothing ELSE Some(name_id + n)

Max(a, b) == IF a >= b THEN a ELSE b

RECURSIVE MaxNameId(_)
MaxNameId(name_record) ==
    IF name_record = <<>> THEN 0
    ELSE Max(Head(name_record).name_id, MaxNameId(Tail(name_record)))

\* The first identifier taken as the largest one in use, the reserved range
\* forgotten.
FirstNameIdUnreserved(name_record) == CheckedAdd(MaxNameId(name_record), 1)

\* lib.rs 343-350: the first free identifier, before the unwrap.
FirstNameId(name_record) ==
    CheckedAdd(Max(MaxNameId(name_record), LAST_RESERVED_NAME_ID), 1)

\* NameRecord::new(3, 1, 0x0409, name_id, label)
NameRecordNew(name_id, string) ==
    [platform_id |-> 3, encoding_id |-> 1, language_id |-> 1033,
     name_id |-> name_id, string |-> string]

\* UserCoord into Fixed (16.16), for the whole numbers the model draws.
ToFixed(v) == v * 65536

\* The VariationAxisRecord pushed for one axis (lib.rs 362-369).
AxisRecord(axis, name_id) ==
    [axis_tag |-> axis.tag, min_value |-> ToFixed(axis.min),
     default_value |-> ToFixed(axis.default), max_value |-> ToFixed(axis.max),
     axis_name_id |-> name_id]

\* compilation.name.take().unwrap_or_default() (lib.rs 342): the records
\* of the table, none when there is no table.
TakeNameTable(name) == IF IsSome(name) THEN Unwrap(name) ELSE <<>>

\* The body of `if let Some(variation_info)` (lib.rs 342-374) for the Axes
\* `axs` and compilation.name `name`: panicked (an unwrap of None), else the
\* name table put back (lib.rs 374) and the fvar axis records.
AssembleAxes(axs, name) ==
    LET taken == TakeNameTable(name)
        first == FirstNameId(taken)
        \* F[i]: the state after i axes; name_id Nothing once an unwrap fails
        F[i \in 0..Len(axs)] ==
            IF i = 0
            THEN [name_record |-> taken, fvar_axes |-> <<>>, name_id |-> first]
            ELSE LET s == F[i - 1] IN
                 IF ~IsSome(s.name_id) THEN s
                 ELSE [name_record |-> Append(s.name_record,
                                        NameRecordNew(Unwrap(s.name_id), axs[i].name)),
                       fvar_axes |-> Append(s.fvar_axes, AxisRecord(axs[i], Unwrap(s.name_id))),
                       name_id |-> CheckedAdd(Unwrap(s.name_id), 1)]
        end == F[Len(axs)]
    IN [panicked |-> ~IsSome(end.name_id),
        name |-> Some(end.name_record),
        fvar_axes |-> end.fvar_axes]

(***************************************************************************)
(* Spec: one invocation of build_shaper_font (lib.rs 269-394).             *)
(***************************************************************************)
Returned == "Ok(res)"
ThrownJsError == "Err(JsError)"
PanicTag == "panic: Tag::from_str(..).unwrap()"
PanicNameId == "panic: NameId::checked_add(1).unwrap()"
PanicUnimplemented == "panic: unimplemented!()"
Panics == {PanicTag, PanicNameId, PanicUnimplemented}

\* The `axes` arguments: absent, empty, one axis, two axes, a bad tag.
AxesArgs ==
    {Nothing, Some(<<>>), Some(<<WghtInfo>>), Some(<<WghtInfo, WdthInfo>>),
     Some(<<AxisInfo(Weight, 100, 400, 900)>>)}

UnitsPerEm == {1000, 2048}

\* compilation.name as the compiler may leave it: absent, or with records
\* in the reserved range, above it, and at the end of the identifier range.
NameTables ==
    {Nothing, Some(<<NameRecordNew(1, "family")>>), Some(<<NameRecordNew(300, "ss01")>>),
     Some(<<NameRecordNew(300, "ss01"), NameRecordNew(65534, "last")>>)}

\* ctx.insert_markers, and the order of their tags.
CtxInsertMarkers == {[tag |-> "kern", lookup_id |-> 0], [tag |-> "aalt", lookup_id |-> 1]}
TagRank(tag) == IF tag = "aalt" THEN 1 ELSE 2

\* lib.rs 321-329: the markers, sorted by tag.
RECURSIVE SortedMarkers(_)
SortedMarkers(ms) ==
    IF ms = {} THEN <<>>
    ELSE LET m == CHOOSE x \in ms : \A y \in ms : TagRank(x.tag) <= TagRank(y.tag)
         IN <<m>> \o SortedMarkers(ms \ {m})

\* The sample mappings the compiler hands to the resolver: the default
\* alone, the default and the first axis' maximum, the maximum alone.
CallbackSamples(order) ==
    LET d == [tag \in Range(order) |-> RZero]
        m == [tag \in Range(order) |-> IF order # <<>> /\ tag = order[1] THEN ROne ELSE RZero]
    IN {[loc \in {d} |-> 3],
        [loc \in {d, m} |-> IF loc = d THEN 3 ELSE -2],
        [loc \in {m} |-> 3]}

\* The batches a phase may report with `used` diagnostics reported so far.
Batches(used) == SeqsUpTo(Diags, IF used < MaxDiags THEN MaxDiags - used ELSE 0)

Init ==
    /\ pc = "parse"
    /\ axesArg \in AxesArgs
    /\ units_per_em \in UnitsPerEm
    /\ outcome = "running"
    /\ res = CompilationResultDefault
    /\ ranPhases = <<>>
    /\ produced = <<>>
    /\ compName = Nothing
    /\ ctxFailed = FALSE
    /\ axes = Nothing /\ model_cache = EmptyCache /\ requested = {}
    /\ calls = 0 /\ lastValues = <<>> /\ lastResult = Err
    /\ IdleUtf

Finish(o, r) ==
    /\ pc' = "done"
    /\ outcome' = o
    /\ res' = r

\* lib.rs 280-302: parse_root (the closure always serves features.fea, so
\* the root source loads), the parse diagnostics, the first early return.
Parse ==
    /\ pc = "parse"
    /\ \E diagnostics \in Batches(0) :
        LET r == add_diagnostics(res, diagnostics) IN
        /\ ranPhases' = Append(ranPhases, "parse")
        /\ produced' = Append(produced, diagnostics)
        /\ IF has_errors(diagnostics)
           THEN Finish(Returned, r)
           ELSE pc' = "variation_info" /\ res' = r /\ UNCHANGED outcome
    /\ UNCHANGED <<axesArg, compName, units_per_em, ctxFailed, resolverVars, utfVars>>

\* lib.rs 304: axes.map(SimpleVariationInfo::new)
NewVariationInfo ==
    /\ pc = "variation_info"
    /\ IF ~IsSome(axesArg)
       THEN pc' = "validate" /\ axes' = Nothing /\ UNCHANGED <<outcome, res>>
       ELSE LET v == SimpleVariationInfoNew(Unwrap(axesArg)) IN
            IF v.ok
            THEN pc' = "validate" /\ axes' = Some(v.v) /\ UNCHANGED <<outcome, res>>
            ELSE Finish(PanicTag, CompilationResultDefault) /\ UNCHANGED axes
    /\ UNCHANGED <<axesArg, ranPhases, produced, compName, units_per_em, ctxFailed,
                   model_cache, requested, calls, lastValues, lastResult, utfVars>>

\* lib.rs 306-310: validate, its diagnostics, the second early return.
Validate ==
    /\ pc = "validate"
    /\ \E diagnostics \in Batches(Len(res.messages)) :
        LET r == add_diagnostics(res, diagnostics) IN
        /\ ranPhases' = Append(ranPhases, "validate")
        /\ produced' = Append(produced, diagnostics)
        /\ IF has_errors(diagnostics)
           THEN Finish(Returned, r)
           ELSE pc' = "compile" /\ res' = r /\ UNCHANGED outcome
    /\ UNCHANGED <<axesArg, compName, units_per_em, ctxFailed, resolverVars, utfVars>>

\* ctx.compile (lib.rs 319) calling back resolve_variable_metric; the
\* compiler records an error when the resolver returns Err.
CompileResolveMetric ==
    /\ pc = "compile"
    /\ IsSome(axes)
    /\ calls < MaxCalls
    /\ \E values \in CallbackSamples(AxisOrder(Unwrap(axes))) :
        /\ ResolveStep(values)
        /\ ctxFailed' = (ctxFailed \/ ~lastResult'.ok)
    /\ UNCHANGED <<pc, axesArg, outcome, res, ranPhases, produced, compName,
                   units_per_em, axes, utfVars>>

\* ctx.compile calling back resolve_glyphs_number_value (lib.rs 197-202).
CompileGlyphsNumberValue ==
    /\ pc = "compile"
    /\ IsSome(axes)
    /\ Finish(PanicUnimplemented, CompilationResultDefault)
    /\ UNCHANGED <<axesArg, ranPhases, produced, compName, units_per_em, ctxFailed,
                   resolverVars, utfVars>>

\* lib.rs 331, 388-392: ctx.build() returns the errors of the compilation.
BuildErr ==
    /\ pc = "compile"
    /\ \E errors \in Batches(IF Len(res.messages) < MaxDiags THEN Len(res.messages)
                                                            ELSE MaxDiags - 1) :
        /\ ContainsError(errors)
        /\ ranPhases' = Append(ranPhases, "build")
        /\ produced' = Append(produced, errors)
        /\ Finish(Returned, add_diagnostics(res, errors))
    /\ UNCHANGED <<axesArg, compName, units_per_em, ctxFailed, resolverVars, utfVars>>

\* lib.rs 331-387: ctx.build() returns a compilation and warnings; head,
\* the axis-table assembly, the font builder.
BuildOk ==
    /\ pc = "compile"
    /\ ~ctxFailed
    /\ \E warnings \in Batches(Len(res.messages)), name \in NameTables,
          builder_fails \in {"no", "to_font_builder", "add_table"} :
        LET r == add_diagnostics(res, warnings)
            a == IF IsSome(axes) THEN AssembleAxes(Unwrap(axes), name)
                 ELSE [panicked |-> FALSE, name |-> name, fvar_axes |-> <<>>]
            tables == [head |-> [units_per_em |-> units_per_em],
                       name |-> a.name,
                       fvar |-> IF a.fvar_axes # <<>> THEN Some(a.fvar_axes) ELSE Nothing]
        IN /\ ~ContainsError(warnings)
           /\ builder_fails = "add_table" => a.fvar_axes # <<>>
           /\ ranPhases' = Append(ranPhases, "build")
           /\ produced' = Append(produced, warnings)
           /\ compName' = name
           /\ IF a.panicked THEN Finish(PanicNameId, CompilationResultDefault)
              ELSE IF builder_fails # "no" THEN Finish(ThrownJsError, CompilationResultDefault)
              ELSE Finish(Returned,
                          [r EXCEPT !.font_data = Some(tables),
                                    !.insert_markers = Some(SortedMarkers(CtxInsertMarkers))])
    /\ UNCHANGED <<axesArg, units_per_em, ctxFailed, resolverVars, utfVars>>

Next ==
    \/ Parse
    \/ NewVariationInfo
    \/ Validate
    \/ CompileResolveMetric
    \/ CompileGlyphsNumberValue
    \/ BuildErr
    \/ BuildOk

Spec == Init /\ [][Next]_vars

(***************************************************************************)
(* Claims about build_shaper_font, checked under Spec.                     *)
(***************************************************************************)
Phases == <<"parse", "validate", "build">>
AllProduced == Flatten(produced)
HasFont == outcome = Returned /\ IsSome(res.font_data)
\* ctx.build() returned a compilation: the axis-table assembly was entered.
Assembled == pc = "done" /\ Len(ranPhases) = 3 /\ ~ContainsError(produced[3])

\* C1: no fatal error ends the call as a panic or as Err(JsError); the call
\* always returns a CompilationResult.
C1_NeverCrashes == outcome \notin Panics \cup {ThrownJsError}

\* C2: the phases run in the order parse, validate, build; an error in a
\* phase's diagnostics halts the later phases; a returned result has
\* font_data exactly when it has insert_markers, which is exactly when no
\* phase reported an error.
C2_PhasesHalt ==
    /\ \E k \in 0..3 : ranPhases = SubSeq(Phases, 1, k)
    /\ Len(produced) = Len(ranPhases)
    /\ \A i \in DOMAIN produced : ContainsError(produced[i]) => i = Len(ranPhases)
    /\ (\E i \in DOMAIN produced : ContainsError(produced[i])) => pc = "done"
    /\ outcome = Returned =>
          /\ IsSome(res.font_data) <=> IsSome(res.insert_markers)
          /\ IsSome(res.font_data) <=> \A i \in DOMAIN produced : ~ContainsError(produced[i])
          /\ IsSome(res.font_data) => Len(ranPhases) = 3

\* Validation reported an error after a clean parse: the result is
\* returned without font data and compilation never ran.
C2_Witness ==
    /\ outcome = Returned
    /\ ranPhases = <<"parse", "validate">>
    /\ ContainsError(produced[2])
    /\ ~IsSome(res.font_data) /\ ~IsSome(res.insert_markers)
    /\ Len(res.messages) = 2

ExistingIds == IF IsSome(compName) THEN {Unwrap(compName)[i].name_id : i \in DOMAIN Unwrap(compName)}
               ELSE {}
BaseId == CHOOSE m \in ExistingIds \cup {LAST_RESERVED_NAME_ID} :
              \A o \in ExistingIds \cup {LAST_RESERVED_NAME_ID} : o <= m

\* C3: given n axes, the assembly appends n name records and produces n
\* axis records; axis i (from 1) gets the identifier max(existing ids and
\* the last reserved id) + i, the same in its name record and its axis
\* record; the assembly fails exactly when the counter would pass 65535.
C3_NameIds ==
    (Assembled /\ IsSome(axes)) =>
        LET axs == Unwrap(axes)
            n == Len(axs)
            old == IF IsSome(compName) THEN Unwrap(compName) ELSE <<>>
        IN /\ (outcome = PanicNameId) <=> (BaseId + 1 + n > U16Max)
           /\ HasFont =>
                LET tables == Unwrap(res.font_data)
                    names == Unwrap(tables.name)
                IN /\ Len(names) = Len(old) + n
                   /\ SubSeq(names, 1, Len(old)) = old
                   /\ \A i \in 1..n :
                        /\ names[Len(old) + i].name_id = BaseId + i
                        /\ names[Len(old) + i].string = axs[i].name
                        /\ \A e \in ExistingIds : e < names[Len(old) + i].name_id
                   /\ IF n = 0 THEN ~IsSome(tables.fvar)
                      ELSE /\ IsSome(tables.fvar)
                           /\ Len(Unwrap(tables.fvar)) = n
                           /\ \A i \in 1..n :
                                /\ Unwrap(tables.fvar)[i].axis_name_id = names[Len(old) + i].name_id
                                /\ Unwrap(tables.fvar)[i].axis_tag = axs[i].tag

\* Two axes over a name table whose largest identifier is 300: 301, 302.
C3_Witness ==
    /\ HasFont
    /\ IsSome(axes) /\ Len(Unwrap(axes)) = 2
    /\ ExistingIds = {300}
    /\ Unwrap(Unwrap(res.font_data).fvar)[2].axis_name_id = 302

EmptyAxisList == ~IsSome(axesArg) \/ Unwrap(axesArg) = <<>>

\* C4: with an empty axis list (absent, or present and empty) the name
\* table is left as the compiler produced it (absent stays absent) and no
\* fvar table is attached; fvar is attached exactly when the list is not
\* empty, with one axis record per axis in input order.
C4_EmptyAxesNoOp ==
    HasFont =>
        LET tables == Unwrap(res.font_data) IN
        /\ EmptyAxisList => (tables.name = compName /\ ~IsSome(tables.fvar))
        /\ IsSome(tables.fvar) <=> ~EmptyAxisList
        /\ ~EmptyAxisList =>
              /\ Len(Unwrap(tables.fvar)) = Len(Unwrap(axesArg))
              /\ \A i \in DOMAIN Unwrap(axesArg) :
                    Unwrap(tables.fvar)[i].axis_tag = Unwrap(axesArg)[i].axis_tag

\* The UTF-8 and UTF-16 lengths of a scalar value, by the Unicode ranges.
ScalarUtf8Len(c) == IF c < 128 THEN 1 ELSE IF c < 2048 THEN 2 ELSE IF c < 65536 THEN 3 ELSE 4
ScalarUtf16Len(c) == IF c < 65536 THEN 1 ELSE 2
BytesOfPrefix(s, k) == SeqSum([i \in 1..k |-> ScalarUtf8Len(s[i])])
UnitsOfPrefix(s, k) == SeqSum([i \in 1..k |-> ScalarUtf16Len(s[i])])
OnBoundary(s, b) == \E k \in 0..Len(s) : BytesOfPrefix(s, k) = b
IsAscii(s) == \A i \in DOMAIN s : s[i] < 128

\* The offset a span boundary translates to, by the scalar values before it.
ExpectedOffset(s, b) ==
    IF OnBoundary(s, b) THEN UnitsOfPrefix(s, CHOOSE k \in 0..Len(s) : BytesOfPrefix(s, k) = b)
    ELSE b
ExpectedLabel(level) ==
    IF level = LevelError THEN <<101, 114, 114, 111, 114>>                  \* "error"
    ELSE IF level = LevelWarning THEN <<119, 97, 114, 110, 105, 110, 103>>  \* "warning"
    ELSE <<105, 110, 102, 111>>                                             \* "info"
ExpectedMessage(d) ==
    LET src == IF d.file_known THEN FeatureSource ELSE <<>> IN
    [level |-> ExpectedLabel(d.level), text |-> d.text,
     span |-> [start |-> ExpectedOffset(src, d.span.start),
               end |-> ExpectedOffset(src, d.span.end)]]

\* C10: the messages of a returned result are the diagnostics of the
\* phases that ran, batch after batch in phase order and each batch in its
\* own order, one message per diagnostic with a lowercase level label.
C10_MessagesInOrder ==
    outcome = Returned =>
        res.messages = [i \in DOMAIN AllProduced |-> ExpectedMessage(AllProduced[i])]

\* A successful build that carries a parse warning and then a build note.
C10_Witness ==
    /\ HasFont
    /\ produced = <<<<DiagW>>, <<>>, <<DiagI>>>>
    /\ Len(res.messages) = 2

(***************************************************************************)
(* SpecU: to_utf16_offset on a source string and a byte offset.            *)
(***************************************************************************)
\* One scalar value of each UTF-8 length: A, e-acute, euro sign, U+1F600.
Scalars == {65, 233, 8364, 128512}

MaxOffset == 4 * MaxLen + 1

InitU ==
    /\ IdleBuild
    /\ axes = Nothing /\ model_cache = EmptyCache /\ requested = {}
    /\ calls = 0 /\ lastValues = <<>> /\ lastResult = Err
    /\ uS \in SeqsUpTo(Scalars, MaxLen)
    /\ uB \in 0..MaxOffset
    /\ uOut = Nothing

Convert ==
    /\ uOut = Nothing
    /\ uOut' = Some(to_utf16_offset(uS, uB))
    /\ UNCHANGED <<buildVars, resolverVars, uS, uB>>

NextU == Convert

SpecU == InitU /\ [][NextU]_vars

\* C5: to_utf16_offset(s, b) is the number of UTF-16 code units of the
\* scalar values in s[0..b] when b is within s and on a scalar-value
\* boundary, and b itself otherwise; so it is b for ASCII-only source, and
\* for an empty source every non-zero offset passes through unchanged.
C5_Utf16Offset ==
    IsSome(uOut) =>
        LET out == Unwrap(uOut) IN
        /\ out \in Nat
        /\ OnBoundary(uS, uB) =>
              \A k \in 0..Len(uS) : BytesOfPrefix(uS, k) = uB => out = UnitsOfPrefix(uS, k)
        /\ ~OnBoundary(uS, uB) => out = uB
        /\ IsAscii(uS) => out = uB
        /\ (uS = <<>> /\ uB # 0) => out = uB

\* An offset just behind a scalar value above U+FFFF: five bytes, three
\* UTF-16 code units.
C5_Witness ==
    /\ uS = <<65, 128512>>
    /\ uB = 5
    /\ uOut = Some(3)

(***************************************************************************)
(* Claims about resolve_variable_metric, checked under SpecR.              *)
(***************************************************************************)
Called == calls > 0

axis_order == AxisOrder(Unwrap(axes))
\* What a resolver with an empty cache builds for the last argument.
FreshModel == VariationModelNew(DOMAIN lastValues, axis_order)
\* The unrounded (region, delta) pairs of the last call, in model order.
Unrounded(model) ==
    LET raw == ModelDeltas(model, [loc \in DOMAIN lastValues |-> <<RInt(lastValues[loc])>>])
    IN Eager([i \in DOMAIN raw.v |-> <<raw.v[i][1], raw.v[i][2][1]>>])
NonDefault(pairs) == SelectSeq(pairs, LAMBDA p : \E tag \in DOMAIN p[1] : p[1][tag][2] # RZero)
\* The unrounded default: the contributions of the regions that reach the
\* default point.
UnroundedDefaultSum(model, pairs) ==
    LET at == [i \in DOMAIN pairs |-> ScalarAt(pairs[i][1], model.default, model.axis_order)]
        reach == SelectSeq([i \in DOMAIN pairs |-> i], LAMBDA i : at[i] # RZero)
    IN RSum([k \in DOMAIN reach |-> RMul(pairs[reach[k]][2], at[reach[k]])])

\* r is the integer nearest to x, a tie going to the larger integer.
NearestTiesUp(r, x) == RLe(RSub(RInt(r), RHalf), x) /\ RLt(x, RAdd(RInt(r), RHalf))
\* r is the integer nearest to x, a tie going away from zero.
NearestTiesAway(r, x) ==
    IF RLe(RZero, x) THEN RLe(RSub(RInt(r), RHalf), x) /\ RLt(x, RAdd(RInt(r), RHalf))
    ELSE RLt(RSub(RInt(r), RHalf), x) /\ RLe(x, RAdd(RInt(r), RHalf))

\* The default and every emitted delta are the nearest integers of their
\* unrounded values, ties going away from zero or to the larger integer.
RoundedBy(away) ==
    LET Nearest(r, x) == IF away THEN NearestTiesAway(r, x) ELSE NearestTiesUp(r, x) IN
    (Called /\ lastResult.ok) =>
        LET model == FreshModel
            pairs == Unrounded(model)
            nd == NonDefault(pairs)
        IN /\ Nearest(lastResult.v.default_value, UnroundedDefaultSum(model, pairs))
           /\ Len(lastResult.v.deltas) = Len(nd)
           /\ \A i \in DOMAIN nd : Nearest(lastResult.v.deltas[i][2], nd[i][2])

\* C6 as stated: the default sum and each emitted delta are rounded to the
\* nearest integer with ties away from zero (2.5 to 3, -2.5 to -3).
C6_Original == RoundedBy(TRUE)

\* C6 amended: the default sum and each emitted delta are rounded to the
\* nearest integer with ties toward positive infinity, floor(x + 0.5):
\* 2.5 yields 3 and -2.5 yields -2.
C6_RoundHalfUp == RoundedBy(FALSE)

\* A call whose unrounded delta is exactly -2.5, emitted as -2.
C6_Witness ==
    /\ Called /\ lastResult.ok
    /\ LET nd == NonDefault(Unrounded(FreshModel)) IN
       \E i \in DOMAIN nd :
          /\ nd[i][2] = <<-5, 2>>
          /\ i \in DOMAIN lastResult.v.deltas
          /\ lastResult.v.deltas[i][2] = -2

\* C7: a successful call returns one (region, rounded delta) entry for every
\* non-default region of the model, in model order, and none for the default
\* region; default_value is the rounded sum of delta x scalar-at-default over
\* the regions that reach the default point, which is the sample at the
\* default location; a mapping with the default location as its single key
\* yields (that sample's value, the empty list).
C7_DeltasSkipDefault ==
    (Called /\ lastResult.ok) =>
        LET model == FreshModel
            nd == NonDefault([i \in DOMAIN model.influence |-> <<model.influence[i], RZero>>])
            out == lastResult.v
        IN /\ Len(out.deltas) = Len(nd)
           /\ \A i \in DOMAIN out.deltas :
                 /\ out.deltas[i][1] = ToWriteFontsRegion(nd[i][1], axis_order)
                 /\ \E k \in DOMAIN out.deltas[i][1] : out.deltas[i][1][k][2] # RZero
                 /\ out.deltas[i][2] \in I16Min..I16Max
           /\ Len(out.deltas) = Cardinality(DOMAIN lastValues \ {model.default})
           /\ NearestTiesUp(out.default_value, UnroundedDefaultSum(model, Unrounded(model)))
           /\ model.default \in DOMAIN lastValues =>
                 out.default_value = lastValues[model.default]
           /\ DOMAIN lastValues = {model.default} => out.deltas = <<>>

\* A successful call on the default location and two more masters.
C7_Witness ==
    /\ Called /\ lastResult.ok
    /\ Cardinality(DOMAIN lastValues) = 3
    /\ Len(lastResult.v.deltas) = 2

\* C8: the cache holds exactly one entry per location set requested so far,
\* each the model of its own key set and the resolver's axis order; a call
\* with a known set changes nothing, a call with a new set adds exactly that
\* entry, and no entry is removed or replaced.
C8_CacheInv ==
    /\ DOMAIN model_cache = requested
    /\ IsSome(axes) =>
          \A k \in DOMAIN model_cache : model_cache[k] = VariationModelNew(k, axis_order)

C8_CacheStep ==
    /\ \A k \in DOMAIN model_cache :
          k \in DOMAIN model_cache' /\ model_cache'[k] = model_cache[k]
    /\ (DOMAIN lastValues' \in DOMAIN model_cache) => model_cache' = model_cache
    /\ (DOMAIN lastValues' \notin DOMAIN model_cache) =>
          DOMAIN model_cache' = DOMAIN model_cache \cup {DOMAIN lastValues'}

C8_CacheExact == [](C8_CacheInv) /\ [][C8_CacheStep]_vars

\* A second call on the location set of the first: one entry.
C8_Witness ==
    /\ calls = 2
    /\ Cardinality(DOMAIN model_cache) = 1
    /\ lastResult.ok

\* C9: whatever calls preceded it, a call returns what a resolver with an
\* empty cache returns for the same sample mapping.
C9_CacheTransparent ==
    Called =>
        lastResult = ResolveWith(FreshModel, lastValues, axis_order)

\* A second call answered from a cache that already holds another entry.
C9_Witness ==
    /\ calls = 2
    /\ Cardinality(DOMAIN model_cache) = 2
    /\ lastResult.ok
    /\ Len(lastResult.v.deltas) > 0

====
